---- MODULE Spec2Model ----
(***************************************************************************)
(* Ledger upload service (src/app.py): Flask handlers /upload,             *)
(* /upload-flash, /results, /update and /export-to-sheet over a PostgreSQL *)
(* table, a generative backend and a spreadsheet backend.                  *)
(*                                                                         *)
(* Numbers: quantities are integers; amounts are Python floats, held here  *)
(* in tenths (12.5 is 125).                                                *)
(***************************************************************************)
EXTENDS Integers, Sequences, FiniteSets, TLC

(* ---------------- bounds ---------------- *)
NumReq == 2
MaxFiles == 2
MaxUpdates == 2
MaxId == 3
InitRows == 2

(* ---------------- JSON values and Python coercions ---------------- *)
JInt(n) == [t |-> "int", v |-> n, s |-> ""]
JFloat(tenths) == [t |-> "float", v |-> tenths, s |-> ""]
JStr(str) == [t |-> "str", v |-> 0, s |-> str]
JNull == [t |-> "null", v |-> 0, s |-> ""]

Ok(x) == [exc |-> "", val |-> x]
Raise(e) == [exc |-> e, val |-> 0]

\* the integer and float literals among the strings of the model
IntLiterals == [x \in {"5"} |-> 5]
FloatLiterals == [x \in {"5", "12.5"} |-> IF x = "5" THEN 50 ELSE 125]

\* int(float): truncation toward zero
Trunc(tenths) == IF tenths >= 0 THEN tenths \div 10 ELSE -((-tenths) \div 10)

\* int() rounding a float down
PyIntFloor(x) ==
  CASE x.t = "int" -> Ok(x.v)
    [] x.t = "float" -> Ok(x.v \div 10)
    [] x.t = "str" -> IF x.s \in DOMAIN IntLiterals THEN Ok(IntLiterals[x.s])
                      ELSE Raise("ValueError")
    [] OTHER -> Raise("TypeError")

PyInt(x) ==
  CASE x.t = "int" -> Ok(x.v)
    [] x.t = "float" -> Ok(Trunc(x.v))
    [] x.t = "str" -> IF x.s \in DOMAIN IntLiterals THEN Ok(IntLiterals[x.s])
                      ELSE Raise("ValueError")
    [] OTHER -> Raise("TypeError")

PyFloat(x) ==
  CASE x.t = "int" -> Ok(x.v * 10)
    [] x.t = "float" -> Ok(x.v)
    [] x.t = "str" -> IF x.s \in DOMAIN FloatLiterals THEN Ok(FloatLiterals[x.s])
                      ELSE Raise("ValueError")
    [] OTHER -> Raise("TypeError")

\* dict.get(key, default)
Get(obj, key, default) == IF key \in DOMAIN obj THEN obj[key] ELSE default

(* ---------------- backend texts ---------------- *)
Fields == {"description", "bill_no", "quantity", "amount"}

DescVals == {JStr("Pen")}
BillVals == {JStr("B1")}
QtyVals == {JInt(5), JFloat(57), JFloat(-25), JStr("5"), JStr("abc"), JNull}
AmtVals == {JFloat(125), JInt(3), JStr("12.5"), JStr("x"), JNull}

FieldVals(k) ==
  CASE k = "description" -> DescVals
    [] k = "bill_no" -> BillVals
    [] k = "quantity" -> QtyVals
    [] OTHER -> AmtVals

EmptyObj == [k \in {} |-> JNull]

JsonObjects ==
  UNION {{o \in [K -> DescVals \cup BillVals \cup QtyVals \cup AmtVals] :
            \A k \in K : o[k] \in FieldVals(k)} : K \in SUBSET Fields}

\* response.text: raw is the text, head its first character ("" when empty),
\* loads what json.loads(raw) gives
JsonText(o) == [raw |-> "{..}", head |-> "{", loads |-> [ok |-> TRUE, obj |-> o]]
BadBraceText == [raw |-> "{oops", head |-> "{", loads |-> [ok |-> FALSE, obj |-> EmptyObj]]
ProseText == [raw |-> "some prose", head |-> "s", loads |-> [ok |-> FALSE, obj |-> EmptyObj]]
EmptyText == [raw |-> "", head |-> "", loads |-> [ok |-> FALSE, obj |-> EmptyObj]]
FencedText == [raw |-> "Here is the JSON: {..}", head |-> "H", loads |-> [ok |-> FALSE, obj |-> EmptyObj]]
PaddedText(o) == [raw |-> " {..}", head |-> " ", loads |-> [ok |-> TRUE, obj |-> o]]

PenObj == [k \in Fields |->
            CASE k = "description" -> JStr("Pen")
              [] k = "bill_no" -> JStr("B1")
              [] k = "quantity" -> JInt(5)
              [] OTHER -> JFloat(125)]

BackendTexts ==
  {JsonText(o) : o \in JsonObjects}
    \cup {BadBraceText, ProseText, EmptyText, FencedText, PaddedText(PenObj)}

(* ---------------- ledger entries ---------------- *)
Today == "2024-01-01"

NonIdFields ==
  {"DATE", "PARTICULARS", "Voucher_BillNo", "RECEIPTS_Quantity", "RECEIPTS_Amount",
   "ISSUED_Quantity", "ISSUED_Amount", "BALANCE_Quantity", "BALANCE_Amount"}

\* Entry_ID 0: the entry has no 'Entry_ID' key yet
Entry(desc, bill, rq, ra, bq, ba) ==
  [Entry_ID |-> 0, DATE |-> Today, PARTICULARS |-> desc, Voucher_BillNo |-> bill,
   RECEIPTS_Quantity |-> rq, RECEIPTS_Amount |-> ra,
   ISSUED_Quantity |-> 0, ISSUED_Amount |-> 0,
   BALANCE_Quantity |-> bq, BALANCE_Amount |-> ba]

NoEntry == Entry("", "", 0, 0, 0, 0)

\* /upload: gemini_result = {} and the entry built from it
UploadEntry ==
  LET gemini_result == EmptyObj
      q == Get(gemini_result, "quantity", JInt(0))
      a == PyFloat(Get(gemini_result, "amount", JFloat(0)))
  IN Entry(Get(gemini_result, "description", JStr("Processed File")).s,
           Get(gemini_result, "bill_no", JStr("N/A")).s,
           q.v, a.val, q.v, a.val)

\* /upload-flash: json.loads(gemini_result) if it starts with '{', else the
\* whole text as the description
GeminiData(text) ==
  IF text.head = "{"
    THEN IF text.loads.ok THEN Ok(text.loads.obj) ELSE Raise("JSONDecodeError")
    ELSE Ok([k \in Fields |->
              CASE k = "description" -> JStr(text.raw)
                [] k = "bill_no" -> JStr("N/A")
                [] k = "quantity" -> JInt(0)
                [] OTHER -> JFloat(0)])

\* the entry with its balances left at zero
FlashEntryBalanceZero(text) ==
  LET d == GeminiData(text) IN
  IF d.exc # "" THEN [exc |-> d.exc, entry |-> NoEntry]
  ELSE
    LET rq == PyInt(Get(d.val, "quantity", JInt(0)))
        ra == PyFloat(Get(d.val, "amount", JFloat(0)))
    IN IF rq.exc # "" THEN [exc |-> rq.exc, entry |-> NoEntry]
       ELSE IF ra.exc # "" THEN [exc |-> ra.exc, entry |-> NoEntry]
       ELSE [exc |-> "",
             entry |-> Entry(Get(d.val, "description", JStr("Processed File")).s,
                             Get(d.val, "bill_no", JStr("N/A")).s,
                             rq.val, ra.val, 0, 0)]

\* the entry of one file, or the exception building it raises
FlashEntry(text) ==
  LET d == GeminiData(text) IN
  IF d.exc # "" THEN [exc |-> d.exc, entry |-> NoEntry]
  ELSE
    LET rq == PyInt(Get(d.val, "quantity", JInt(0)))
        ra == PyFloat(Get(d.val, "amount", JFloat(0)))
        bq == PyInt(Get(d.val, "quantity", JInt(0)))
        ba == PyFloat(Get(d.val, "amount", JFloat(0)))
    IN IF rq.exc # "" THEN [exc |-> rq.exc, entry |-> NoEntry]
       ELSE IF ra.exc # "" THEN [exc |-> ra.exc, entry |-> NoEntry]
       ELSE [exc |-> "",
             entry |-> Entry(Get(d.val, "description", JStr("Processed File")).s,
                             Get(d.val, "bill_no", JStr("N/A")).s,
                             rq.val, ra.val, bq.val, ba.val)]

(* ---------------- requests ---------------- *)
Reqs == 1..NumReq

Filenames == {"", "a.pdf"}

RECURSIVE SeqsUpTo(_, _)
SeqsUpTo(S, n) ==
  IF n = 0 THEN {<<>>}
  ELSE LET shorter == SeqsUpTo(S, n - 1)
       IN shorter \cup {Append(q, x) : q \in {t \in shorter : Len(t) = n - 1}, x \in S}

\* request.files.getlist('files'): the filenames; the key 'files' is in
\* request.files exactly when the list is not empty
FileLists == SeqsUpTo(Filenames, MaxFiles)

AllFields == NonIdFields \cup {"Entry_ID"}

\* the spec's scenario: balances that mismatch the receipts
Payload1 ==
  [Entry_ID |-> 0, DATE |-> "2024-01-01", PARTICULARS |-> "Pen", Voucher_BillNo |-> "B1",
   RECEIPTS_Quantity |-> 5, RECEIPTS_Amount |-> 125, ISSUED_Quantity |-> 0,
   ISSUED_Amount |-> 0, BALANCE_Quantity |-> 5, BALANCE_Amount |-> 999]
Payload2 ==
  [Entry_ID |-> 0, DATE |-> "2024-02-02", PARTICULARS |-> "Ink", Voucher_BillNo |-> "B2",
   RECEIPTS_Quantity |-> 7, RECEIPTS_Amount |-> 30, ISSUED_Quantity |-> 2,
   ISSUED_Amount |-> 10, BALANCE_Quantity |-> 5, BALANCE_Amount |-> 20]

WithId(e, id) == [e EXCEPT !.Entry_ID = id]
Without(o, key) == [k \in (DOMAIN o) \ {key} |-> o[k]]

\* the row objects of a JSON body: complete ones, and one without 'DATE'
RowObjects ==
  {WithId(Payload1, id) : id \in 1..MaxId}
    \cup {WithId(Payload2, 1), Without(WithId(Payload1, 1), "DATE")}

UpdateBodies == SeqsUpTo(RowObjects, MaxUpdates)
ExportBodies == {<<>>, <<WithId(Payload1, 1)>>, <<Without(WithId(Payload1, 1), "DATE")>>}

Request(kind, files, body) == [kind |-> kind, files |-> files, body |-> body]
NoRequest == Request("none", <<>>, <<>>)

Requests ==
  {Request(k, f, <<>>) : k \in {"upload", "flash"}, f \in FileLists}
    \cup {Request("results", <<>>, <<>>)}
    \cup {Request("update", <<>>, b) : b \in UpdateBodies}
    \cup {Request("export", <<>>, b) : b \in ExportBodies}

\* the texts the backend answers with in the handler model
HandlerTexts ==
  {ProseText, BadBraceText, JsonText(PenObj), JsonText([k \in {"quantity"} |-> JStr("abc")])}

(* ---------------- the store ---------------- *)
\* the rows a table may hold before the first request of a behaviour, in the
\* heap order two concurrent uploads leave when the second commits first
SeedRows == <<WithId(Payload2, 2), WithId(UploadEntry, 1), WithId(Payload1, 3)>>

MaxOf(S) == IF S = {} THEN 0 ELSE CHOOSE m \in S : \A x \in S : x <= m

Ids(tbl) == {tbl[p].Entry_ID : p \in 1..Len(tbl)}
RowOf(tbl, id) == tbl[CHOOSE p \in 1..Len(tbl) : tbl[p].Entry_ID = id]

\* the table's key default: the next value of its sequence
NextVal(s) == s + 1

\* the handler numbering the row itself, from the rows it can see
ExecInsertMaxPlusOne(s, tbl, entry) ==
  LET id == 1 + MaxOf(Ids(tbl))
  IN [seq |-> NextVal(s), row |-> WithId(entry, id)]

\* INSERT INTO table_name (nine columns) ... RETURNING Entry_ID
ExecInsert(s, tbl, entry) ==
  [seq |-> NextVal(s), row |-> WithId(entry, NextVal(s))]

\* the UPDATE without its WHERE clause
ExecUpdateNoWhere(tbl, u) ==
  [p \in 1..Len(tbl) |-> [op |-> "update", row |-> WithId(u, tbl[p].Entry_ID)]]

\* UPDATE ... SET nine columns WHERE Entry_ID = %s: the pending writes of one
\* statement, none when no row matches
ExecUpdate(tbl, u) ==
  IF u.Entry_ID \in Ids(tbl) THEN <<[op |-> "update", row |-> u]>> ELSE <<>>

ApplyWrite(tbl, w) ==
  IF w.op = "insert" THEN Append(tbl, w.row)
  ELSE [p \in 1..Len(tbl) |->
          IF tbl[p].Entry_ID = w.row.Entry_ID THEN w.row ELSE tbl[p]]

RECURSIVE ApplyWrites(_, _)
ApplyWrites(tbl, ws) ==
  IF ws = <<>> THEN tbl ELSE ApplyWrites(ApplyWrite(tbl, Head(ws)), Tail(ws))

\* a connection in autocommit mode: a statement's writes reach the table at once
UncommittedAutocommit(tbl, ws) == ApplyWrites(tbl, ws)

\* psycopg2.connect(): the connection is not in autocommit mode, so the table
\* other connections see is unchanged by a statement's writes ws
Uncommitted(tbl, ws) == tbl

\* the commit left out
CommitTxnMissing(tbl, ws) == tbl

\* conn.commit(): the transaction's writes reach the table
CommitTxn(tbl, ws) == ApplyWrites(tbl, ws)

RECURSIVE SortById(_)
SortById(rows) ==
  IF rows = <<>> THEN <<>>
  ELSE LET m == CHOOSE p \in 1..Len(rows) :
                  \A q \in 1..Len(rows) : rows[p].Entry_ID <= rows[q].Entry_ID
           rest == [q \in 1..(Len(rows) - 1) |-> IF q < m THEN rows[q] ELSE rows[q + 1]]
       IN <<rows[m]>> \o SortById(rest)

\* the SELECT without its ORDER BY: the rows in heap order
ListAllUnordered(tbl) == tbl

\* SELECT * FROM table_name ORDER BY Entry_ID
ListAll(tbl) == SortById(tbl)

\* any() in place of all()
NoValidFilesAny(files) == files = <<>> \/ \E p \in 1..Len(files) : files[p] = ""

\* files = request.files.getlist('files'); not files or all(f.filename == '' ...)
NoValidFiles(files) == files = <<>> \/ \A p \in 1..Len(files) : files[p] = ""

(* ---------------- state ---------------- *)
VARIABLES
  table,         \* committed rows of table_name, in heap order
  seq,           \* last value of the Entry_ID sequence
  pc,            \* where each request's handler is
  req,           \* each request
  idx,           \* the index of the handler's current loop
  data_entries,  \* the handler's data_entries
  conn,          \* the handler's connection: "none", "open", "closed"
  txn,           \* the uncommitted writes of the connection's transaction
  resp,          \* the response: status (0: not answered) and error text
  data,          \* the rows /results fetched
  calls,         \* calls made to the extractor and the spreadsheet publisher
  lastWriter,    \* history: the request whose write each row shows (0: none)
  table0,        \* history: the table before the first request
  gemini_result, \* parsing alone: the backend text
  outcome        \* parsing alone: what building the entry gave

vars == <<table, seq, pc, req, idx, data_entries, conn, txn, resp, data, calls,
          lastWriter, table0, gemini_result, outcome>>

storeVars == <<table, seq, lastWriter, table0>>
parseVars == <<gemini_result, outcome>>

Pending == [exc |-> "pending", entry |-> NoEntry]

HandlerInit ==
  /\ pc = [r \in Reqs |-> "idle"]
  /\ req = [r \in Reqs |-> NoRequest]
  /\ idx = [r \in Reqs |-> 0]
  /\ data_entries = [r \in Reqs |-> <<>>]
  /\ conn = [r \in Reqs |-> "none"]
  /\ txn = [r \in Reqs |-> <<>>]
  /\ resp = [r \in Reqs |-> [status |-> 0, error |-> ""]]
  /\ data = [r \in Reqs |-> <<>>]
  /\ calls = [r \in Reqs |-> [extract |-> 0, publish |-> 0]]

Init ==
  /\ \E n \in 0..InitRows : table = SubSeq(SeedRows, 1, n)
  /\ seq = MaxOf(Ids(table))
  /\ lastWriter = [id \in 1..MaxId |-> 0]
  /\ table0 = table
  /\ HandlerInit
  /\ gemini_result = ProseText
  /\ outcome = Pending

(* ---------------- handler steps ---------------- *)
Answer(r, status, error) ==
  /\ pc' = [pc EXCEPT ![r] = "done"]
  /\ resp' = [resp EXCEPT ![r] = [status |-> status, error |-> error]]

\* the history of who wrote what, from the table before and after a step
Touched(old, new, r, lw) ==
  [id \in 1..MaxId |->
     IF id \in Ids(new) /\ (id \notin Ids(old) \/ RowOf(new, id) # RowOf(old, id))
       THEN r ELSE lw[id]]

FirstStep(kind) ==
  CASE kind \in {"upload", "flash"} -> "validate"
    [] kind = "export" -> "create"
    [] OTHER -> "connect"

\* a request reaches its handler (the requests are numbered as they arrive)
Arrive(r) ==
  /\ pc[r] = "idle"
  /\ IF r = 1 THEN TRUE ELSE pc[r - 1] # "idle"
  /\ \E q \in Requests :
       /\ req' = [req EXCEPT ![r] = q]
       /\ pc' = [pc EXCEPT ![r] = FirstStep(q.kind)]
  /\ UNCHANGED <<idx, data_entries, conn, txn, resp, data, calls, storeVars, parseVars>>

\* upload_files, upload_files_flash: the two checks of request.files
Validate(r) ==
  /\ pc[r] = "validate"
  /\ \/ /\ req[r].files = <<>>
        /\ Answer(r, 400, "No files uploaded")
        /\ UNCHANGED idx
     \/ /\ req[r].files # <<>>
        /\ NoValidFiles(req[r].files)
        /\ Answer(r, 400, "No valid files uploaded")
        /\ UNCHANGED idx
     \/ /\ req[r].files # <<>>
        /\ ~NoValidFiles(req[r].files)
        /\ pc' = [pc EXCEPT ![r] = IF req[r].kind = "upload" THEN "build" ELSE "extract"]
        /\ idx' = [idx EXCEPT ![r] = 1]
        /\ UNCHANGED resp
  /\ UNCHANGED <<req, data_entries, conn, txn, data, calls, storeVars, parseVars>>

\* upload_files: the loop that builds data_entries
UploadBuild(r) ==
  /\ pc[r] = "build"
  /\ data_entries' = [data_entries EXCEPT ![r] = [p \in 1..Len(req[r].files) |-> UploadEntry]]
  /\ pc' = [pc EXCEPT ![r] = "connect"]
  /\ UNCHANGED <<req, idx, conn, txn, resp, data, calls, storeVars, parseVars>>

\* upload_files_flash: one turn of the loop over files: the backend call and
\* the entry built from its text
FlashExtract(r) ==
  /\ pc[r] = "extract"
  /\ calls' = [calls EXCEPT ![r].extract = @ + 1]
  /\ \/ /\ Answer(r, 500, "Failed to process files: backend")
        /\ UNCHANGED <<data_entries, idx>>
     \/ \E text \in HandlerTexts :
          LET e == FlashEntry(text) IN
          IF e.exc # ""
            THEN /\ Answer(r, 500, e.exc)
                 /\ UNCHANGED <<data_entries, idx>>
            ELSE /\ data_entries' = [data_entries EXCEPT ![r] = Append(@, e.entry)]
                 /\ idx' = [idx EXCEPT ![r] = @ + 1]
                 /\ pc' = [pc EXCEPT ![r] =
                             IF idx[r] = Len(req[r].files) THEN "connect" ELSE "extract"]
                 /\ UNCHANGED resp
  /\ UNCHANGED <<req, conn, txn, data, storeVars, parseVars>>

AfterConnect(r) ==
  CASE req[r].kind \in {"upload", "flash"} -> "insert"
    [] req[r].kind = "results" -> "select"
    [] OTHER -> IF req[r].body = <<>> THEN "commit" ELSE "execute"

\* get_db_connection() and conn.cursor()
Connect(r) ==
  /\ pc[r] = "connect"
  /\ \/ /\ Answer(r, 500, "OperationalError")
        /\ UNCHANGED <<conn, idx>>
     \/ /\ conn' = [conn EXCEPT ![r] = "open"]
        /\ pc' = [pc EXCEPT ![r] = AfterConnect(r)]
        /\ idx' = [idx EXCEPT ![r] = 1]
        /\ UNCHANGED resp
  /\ UNCHANGED <<req, data_entries, txn, data, calls, storeVars, parseVars>>

\* one turn of the loop over data_entries: the INSERT and entry['Entry_ID']
Insert(r) ==
  /\ pc[r] = "insert"
  /\ \/ /\ Answer(r, 500, "StorageError")
        /\ UNCHANGED <<seq, txn, data_entries, idx, table, lastWriter>>
     \/ /\ seq < MaxId
        /\ LET x == ExecInsert(seq, table, data_entries[r][idx[r]]) IN
             /\ seq' = x.seq
             /\ txn' = [txn EXCEPT ![r] = Append(@, [op |-> "insert", row |-> x.row])]
             /\ data_entries' = [data_entries EXCEPT ![r][idx[r]] = x.row]
             /\ table' = Uncommitted(table, <<[op |-> "insert", row |-> x.row]>>)
             /\ lastWriter' = Touched(table, table', r, lastWriter)
        /\ idx' = [idx EXCEPT ![r] = @ + 1]
        /\ pc' = [pc EXCEPT ![r] =
                    IF idx[r] = Len(data_entries[r]) THEN "commit" ELSE "insert"]
        /\ UNCHANGED resp
  /\ UNCHANGED <<req, conn, data, calls, table0, parseVars>>

\* update_data: one turn of the loop over updates
Execute(r) ==
  /\ pc[r] = "execute"
  /\ LET u == req[r].body[idx[r]] IN
       \/ /\ ~(AllFields \subseteq DOMAIN u)
          /\ Answer(r, 500, "KeyError")
          /\ UNCHANGED <<txn, idx, table, lastWriter>>
       \/ /\ AllFields \subseteq DOMAIN u
          /\ Answer(r, 500, "StorageError")
          /\ UNCHANGED <<txn, idx, table, lastWriter>>
       \/ /\ AllFields \subseteq DOMAIN u
          /\ txn' = [txn EXCEPT ![r] = @ \o ExecUpdate(table, u)]
          /\ table' = Uncommitted(table, ExecUpdate(table, u))
          /\ lastWriter' = Touched(table, table', r, lastWriter)
          /\ idx' = [idx EXCEPT ![r] = @ + 1]
          /\ pc' = [pc EXCEPT ![r] =
                      IF idx[r] = Len(req[r].body) THEN "commit" ELSE "execute"]
          /\ UNCHANGED resp
  /\ UNCHANGED <<req, data_entries, conn, data, calls, seq, table0, parseVars>>

\* get_results: the SELECT and fetchall()
Select(r) ==
  /\ pc[r] = "select"
  /\ \/ /\ Answer(r, 500, "StorageError")
        /\ UNCHANGED data
     \/ /\ data' = [data EXCEPT ![r] = ListAll(table)]
        /\ pc' = [pc EXCEPT ![r] = "close"]
        /\ UNCHANGED resp
  /\ UNCHANGED <<req, idx, data_entries, conn, txn, calls, storeVars, parseVars>>

\* conn.commit(); when it raises, the server has either dropped the
\* transaction or committed it before the connection was lost
Commit(r) ==
  /\ pc[r] = "commit"
  /\ \/ /\ Answer(r, 500, "StorageError")
        /\ UNCHANGED <<table, lastWriter, txn>>
     \/ /\ Answer(r, 500, "StorageError")
        /\ table' = CommitTxn(table, txn[r])
        /\ lastWriter' = Touched(table, table', r, lastWriter)
        /\ txn' = [txn EXCEPT ![r] = <<>>]
     \/ /\ table' = CommitTxn(table, txn[r])
        /\ lastWriter' = Touched(table, table', r, lastWriter)
        /\ txn' = [txn EXCEPT ![r] = <<>>]
        /\ pc' = [pc EXCEPT ![r] = IF req[r].kind = "flash" THEN "create" ELSE "close"]
        /\ UNCHANGED resp
  /\ UNCHANGED <<req, idx, data_entries, conn, data, calls, seq, table0, parseVars>>

\* sheets_service.spreadsheets().create(...).execute()
CreateSheet(r) ==
  /\ pc[r] = "create"
  /\ calls' = [calls EXCEPT ![r].publish = @ + 1]
  /\ \/ Answer(r, 500, "PublishError")
     \/ /\ pc' = [pc EXCEPT ![r] = "write"]
        /\ UNCHANGED resp
  /\ UNCHANGED <<req, idx, data_entries, conn, txn, data, storeVars, parseVars>>

\* the values grid and spreadsheets().values().update(...).execute()
WriteSheet(r) ==
  /\ pc[r] = "write"
  /\ \/ /\ req[r].kind = "export"
        /\ \E p \in 1..Len(req[r].body) : ~(AllFields \subseteq DOMAIN req[r].body[p])
        /\ Answer(r, 500, "KeyError")
        /\ UNCHANGED calls
     \/ /\ req[r].kind = "export" =>
             \A p \in 1..Len(req[r].body) : AllFields \subseteq DOMAIN req[r].body[p]
        /\ calls' = [calls EXCEPT ![r].publish = @ + 1]
        /\ \/ Answer(r, 500, "PublishError")
           \/ /\ req[r].kind = "export"
              /\ Answer(r, 200, "")
           \/ /\ req[r].kind = "flash"
              /\ pc' = [pc EXCEPT ![r] = "close"]
              /\ UNCHANGED resp
  /\ UNCHANGED <<req, idx, data_entries, conn, txn, data, storeVars, parseVars>>

\* cur.close(); conn.close(); return ..., 200
Close(r) ==
  /\ pc[r] = "close"
  /\ conn' = [conn EXCEPT ![r] = "closed"]
  /\ Answer(r, 200, "")
  /\ UNCHANGED <<req, idx, data_entries, txn, data, calls, storeVars, parseVars>>

\* the interpreter reclaims a connection the handler left open; the server
\* rolls its transaction back
Finalize(r) ==
  /\ pc[r] = "done"
  /\ conn[r] = "open"
  /\ conn' = [conn EXCEPT ![r] = "closed"]
  /\ txn' = [txn EXCEPT ![r] = <<>>]
  /\ UNCHANGED <<pc, req, idx, data_entries, resp, data, calls, storeVars, parseVars>>

Next ==
  \E r \in Reqs :
    \/ Arrive(r)
    \/ Validate(r)
    \/ UploadBuild(r)
    \/ FlashExtract(r)
    \/ Connect(r)
    \/ Insert(r)
    \/ Execute(r)
    \/ Select(r)
    \/ Commit(r)
    \/ CreateSheet(r)
    \/ WriteSheet(r)
    \/ Close(r)
    \/ Finalize(r)

Spec == Init /\ [][Next]_vars

(* ---------------- parsing alone ---------------- *)
ParseInit ==
  /\ table = <<>>
  /\ seq = 0
  /\ lastWriter = [id \in 1..MaxId |-> 0]
  /\ table0 = table
  /\ HandlerInit
  /\ gemini_result \in BackendTexts
  /\ outcome = Pending

\* upload_files_flash: gemini_data and entry of one file
BuildEntry ==
  /\ outcome = Pending
  /\ outcome' = FlashEntry(gemini_result)
  /\ UNCHANGED <<pc, req, idx, data_entries, conn, txn, resp, data, calls, storeVars,
                 gemini_result>>

ParseNext == BuildEntry

SpecParse == ParseInit /\ [][ParseNext]_vars

(* ---------------- C6 ---------------- *)
IsNumber(x) == x.t \in {"int", "float"}

\* q is the float v (in tenths) with its fraction dropped
TruncOf(q, v) ==
  /\ v >= 0 => (10 * q <= v /\ v < 10 * q + 10)
  /\ v < 0 => (10 * q >= v /\ v > 10 * q - 10)

QuantityIs(q, o) ==
  IF "quantity" \notin DOMAIN o THEN q = 0
  ELSE CASE o.quantity.t = "int" -> q = o.quantity.v
         [] o.quantity.t = "float" -> TruncOf(q, o.quantity.v)
         [] OTHER -> o.quantity.s = "5" /\ q = 5

AmountIs(a, o) ==
  IF "amount" \notin DOMAIN o THEN a = 0
  ELSE CASE o.amount.t = "int" -> a = 10 * o.amount.v
         [] o.amount.t = "float" -> a = o.amount.v
         [] OTHER -> \/ o.amount.s = "5" /\ a = 50
                     \/ o.amount.s = "12.5" /\ a = 125

Coercible(o) ==
  /\ "quantity" \in DOMAIN o => (IsNumber(o.quantity) \/ o.quantity = JStr("5"))
  /\ "amount" \in DOMAIN o => (IsNumber(o.amount) \/ o.amount \in {JStr("5"), JStr("12.5")})

TextsOf(o) ==
  /\ outcome.entry.PARTICULARS =
       (IF "description" \in DOMAIN o THEN o.description.s ELSE "Processed File")
  /\ outcome.entry.Voucher_BillNo =
       (IF "bill_no" \in DOMAIN o THEN o.bill_no.s ELSE "N/A")

\* C6 (amended): a text that begins with '{' and is a JSON object whose
\* quantity and amount can be coerced gives a row with the object's
\* description and bill_no, int(quantity) (a float loses its fraction, a
\* numeric string is read) and float(amount), a missing field taking its
\* default; a text that begins with '{' and is not JSON, or whose quantity or
\* amount cannot be coerced, gives no row but an exception; any other text
\* becomes the particulars, with 'N/A', 0 and 0.0.
C6_ParsingPolicy ==
  outcome # Pending =>
    IF gemini_result.head = "{"
      THEN IF ~gemini_result.loads.ok THEN outcome.exc = "JSONDecodeError"
           ELSE LET o == gemini_result.loads.obj IN
                IF ~Coercible(o) THEN outcome.exc \in {"ValueError", "TypeError"}
                ELSE /\ outcome.exc = ""
                     /\ TextsOf(o)
                     /\ QuantityIs(outcome.entry.RECEIPTS_Quantity, o)
                     /\ AmountIs(outcome.entry.RECEIPTS_Amount, o)
      ELSE /\ outcome.exc = ""
           /\ outcome.entry.PARTICULARS = gemini_result.raw
           /\ outcome.entry.Voucher_BillNo = "N/A"
           /\ outcome.entry.RECEIPTS_Quantity = 0
           /\ outcome.entry.RECEIPTS_Amount = 0

\* a row built from an object with a fractional, negative quantity
C6_Witness ==
  /\ gemini_result.head = "{"
  /\ gemini_result.loads.ok
  /\ "quantity" \in DOMAIN gemini_result.loads.obj
  /\ gemini_result.loads.obj.quantity = JFloat(-25)
  /\ outcome.exc = ""
  /\ outcome.entry.RECEIPTS_Quantity = -2

SameQuantity(q, x) == (x.t = "int" /\ x.v = q) \/ (x.t = "float" /\ x.v = 10 * q)
SameAmount(a, x) == (x.t = "int" /\ 10 * x.v = a) \/ (x.t = "float" /\ x.v = a)

\* C6 as stated, for the texts a row is built from: the row's quantity and
\* amount are the object's quantity and amount
C6_AsStated ==
  (outcome # Pending /\ outcome.exc = "" /\ gemini_result.head = "{") =>
    LET o == gemini_result.loads.obj IN
      /\ TextsOf(o)
      /\ SameQuantity(outcome.entry.RECEIPTS_Quantity, Get(o, "quantity", JInt(0)))
      /\ SameAmount(outcome.entry.RECEIPTS_Amount, Get(o, "amount", JFloat(0)))

(* ---------------- C1 ---------------- *)
IsUpload(r) == req[r].kind \in {"upload", "flash"}
Answered(r) == pc[r] = "done"

\* the ids of the committed rows that request r inserted
InsertedBy(r) ==
  {id \in Ids(table) : \E p \in 1..Len(data_entries[r]) : data_entries[r][p].Entry_ID = id}

FreshRow(row) ==
  /\ row.BALANCE_Quantity = row.RECEIPTS_Quantity
  /\ row.BALANCE_Amount = row.RECEIPTS_Amount
  /\ row.ISSUED_Quantity = 0
  /\ row.ISSUED_Amount = 0

\* the rows request r is inserting, and the committed rows that still are as
\* r wrote them
RowsWrittenBy(r) ==
  {txn[r][p].row : p \in 1..Len(txn[r])}
    \cup {RowOf(table, id) : id \in {x \in Ids(table) : lastWriter[x] = r}}

\* C1 (amended): an upload request answered 200 has inserted as many rows as
\* its file list has entries (those with an empty filename included), and
\* every row an upload request inserts has its balance equal to its receipts
\* and nothing issued.
C1_RowPerFile ==
  \A r \in Reqs :
    IsUpload(r) =>
      /\ resp[r].status = 200 =>
           (Len(req[r].files) >= 1 /\ Cardinality(InsertedBy(r)) = Len(req[r].files))
      /\ \A row \in RowsWrittenBy(r) : FreshRow(row)

\* a two-file upload-and-publish answered 200 whose rows carry extracted values
C1_Witness ==
  \E r \in Reqs :
    /\ req[r].kind = "flash"
    /\ Len(req[r].files) = 2
    /\ resp[r].status = 200
    /\ Cardinality(InsertedBy(r)) = 2
    /\ \E id \in InsertedBy(r) :
         lastWriter[id] = r /\ RowOf(table, id).RECEIPTS_Quantity = 5

\* C1 as stated: every answered upload request with at least one file has
\* inserted one row per file
C1_AsStated ==
  \A r \in Reqs :
    (IsUpload(r) /\ Answered(r) /\ Len(req[r].files) >= 1) =>
      /\ Cardinality(InsertedBy(r)) = Len(req[r].files)
      /\ \A row \in RowsWrittenBy(r) : FreshRow(row)

(* ---------------- C2 ---------------- *)
AllNamesEmpty(files) == \A p \in 1..Len(files) : files[p] = ""

\* C2: an upload request without files, or whose filenames are all empty, is
\* answered 400 without a connection, an inserted row, or a call to the
\* extractor or the publisher; one with a non-empty filename is not
\* answered 400.
C2_Rejected ==
  \A r \in Reqs :
    IsUpload(r) =>
      IF AllNamesEmpty(req[r].files)
        THEN /\ pc[r] \in {"validate", "done"}
             /\ Answered(r) => resp[r].status = 400
             /\ calls[r] = [extract |-> 0, publish |-> 0]
             /\ conn[r] = "none"
             /\ data_entries[r] = <<>> /\ txn[r] = <<>>
             /\ \A id \in Ids(table) : lastWriter[id] # r
        ELSE resp[r].status # 400

\* both cases: an all-empty list answered 400, a mixed list answered 200
C2_Witness ==
  \E r, q \in Reqs :
    /\ IsUpload(r) /\ req[r].files = <<"", "">> /\ resp[r].status = 400
    /\ IsUpload(q) /\ req[q].files = <<"", "a.pdf">> /\ resp[q].status = 200

(* ---------------- C3 ---------------- *)
ExtractionErrors ==
  {"Failed to process files: backend", "JSONDecodeError", "ValueError", "TypeError"}

Listed(id) == \E p \in 1..Len(ListAll(table)) : ListAll(table)[p].Entry_ID = id

\* C3 (amended): upload-and-publish extracts every file before it opens a
\* connection or inserts a row, so a failed extraction is answered 500 with
\* no row inserted; once the publish step has begun, one row per file is
\* committed, and a failed publish step is answered 500 with those rows left
\* in the store, where a list-results call finds them.
C3_NoRollback ==
  \A r \in Reqs :
    req[r].kind = "flash" =>
      /\ (pc[r] = "extract" \/ (Answered(r) /\ resp[r].error \in ExtractionErrors)) =>
           /\ conn[r] = "none"
           /\ txn[r] = <<>>
           /\ InsertedBy(r) = {}
           /\ \A p \in 1..Len(data_entries[r]) : data_entries[r][p].Entry_ID = 0
      /\ (Answered(r) /\ resp[r].error \in ExtractionErrors) => resp[r].status = 500
      /\ calls[r].publish >= 1 =>
           /\ Cardinality(InsertedBy(r)) = Len(req[r].files)
           /\ \A id \in InsertedBy(r) : Listed(id)
      /\ (Answered(r) /\ resp[r].error = "PublishError") => resp[r].status = 500

\* a two-file request whose publish step failed, and a later list-results
\* call that returned its two rows
C3_Witness ==
  \E r, q \in Reqs :
    /\ req[r].kind = "flash" /\ Len(req[r].files) = 2
    /\ resp[r] = [status |-> 500, error |-> "PublishError"]
    /\ Cardinality(InsertedBy(r)) = 2
    /\ req[q].kind = "results" /\ resp[q].status = 200
    /\ \A id \in InsertedBy(r) : \E p \in 1..Len(data[q]) : data[q][p].Entry_ID = id

\* C3 as stated: the files before the one whose extraction failed have their
\* rows in the store
C3_AsStated ==
  \A r \in Reqs :
    (req[r].kind = "flash" /\ Answered(r) /\ resp[r].error \in ExtractionErrors
       /\ calls[r].extract >= 2) =>
      Cardinality(InsertedBy(r)) = calls[r].extract - 1

(* ---------------- C4 ---------------- *)
\* C4 (amended): a bulk update runs its updates in request order in one
\* transaction, committed after the last; when the k-th update fails the
\* response is 500, the updates after k are not run, and no update of the
\* request, before k or after, ever shows in the table (idx is k).
C4_AllOrNothing ==
  \A r \in Reqs :
    req[r].kind = "update" =>
      /\ (Answered(r) /\ conn[r] # "none" /\ idx[r] <= Len(req[r].body)) =>
           resp[r].status = 500
      /\ \/ pc[r] \in {"connect", "execute", "commit"}
         \/ (resp[r].status = 500 /\ idx[r] <= Len(req[r].body))
         => \A id \in Ids(table) : lastWriter[id] # r

Others(r) == Reqs \ {r}

\* the second update of a request failed after its first matched a row; a
\* later list-results call returns the table as it was
C4_Witness ==
  \E r, q \in Reqs :
    /\ req[r].kind = "update" /\ Len(req[r].body) = 2 /\ idx[r] = 2
    /\ req[r].body[1].Entry_ID \in Ids(table0)
    /\ resp[r].status = 500
    /\ req[q].kind = "results" /\ resp[q].status = 200
    /\ data[q] = ListAll(table0)
    /\ RowOf(table0, req[r].body[1].Entry_ID) # req[r].body[1]

\* C4 as stated: the updates before the failed one stay visible
C4_AsStated ==
  \A r \in Reqs :
    (/\ req[r].kind = "update" /\ Answered(r) /\ resp[r].status = 500
     /\ idx[r] >= 2 /\ idx[r] <= Len(req[r].body)
     /\ \A q \in Others(r) : pc[q] = "idle"
     /\ req[r].body[1].Entry_ID \in Ids(table)) =>
      RowOf(table, req[r].body[1].Entry_ID) = req[r].body[1]

(* ---------------- C5 ---------------- *)
\* C5: no upload-and-publish request ends in 500 because of a backend text
\* that is present but malformed
C5_AsStated ==
  \A r \in Reqs :
    (req[r].kind = "flash" /\ Answered(r)) =>
      resp[r].error \notin {"JSONDecodeError", "ValueError", "TypeError"}

(* ---------------- C7 ---------------- *)
Names(body, id) == {p \in 1..Len(body) : body[p].Entry_ID = id}

\* what a body of complete entries makes of a table, row by row
Overwritten(tbl, body) ==
  [p \in 1..Len(tbl) |->
     IF Names(body, tbl[p].Entry_ID) = {} THEN tbl[p]
     ELSE body[MaxOf(Names(body, tbl[p].Entry_ID))]]

CommitsUpdate(r) == req[r].kind = "update" /\ pc[r] = "commit" /\ pc'[r] = "close"

\* An update entry whose Entry_ID matches no row raises nothing and
\* changes nothing; one that matches a row overwrites that row's nine fields
\* and nothing else. A bulk update of complete entries, run alone and not
\* failed by the store, is answered 200 and leaves each row either as it was
\* (no entry names it) or as the last entry naming it says; at every commit
\* of a bulk update the rows keep their number, order and ids, and a row no
\* entry names is unchanged.
C7_State ==
  \A r \in Reqs :
    (/\ req[r].kind = "update" /\ Answered(r)
     /\ \A q \in Others(r) : pc[q] = "idle") =>
      /\ resp[r].status = 200 => table = Overwritten(table0, req[r].body)
      /\ (resp[r].status # 200 /\ idx[r] <= Len(req[r].body)) => table = table0
      /\ resp[r].error \in {"", "KeyError", "StorageError", "OperationalError"}
      /\ resp[r].error = "KeyError" =>
           \E p \in 1..Len(req[r].body) : ~(AllFields \subseteq DOMAIN req[r].body[p])

C7_Step ==
  \A r \in Reqs :
    CommitsUpdate(r) =>
      /\ Len(table') = Len(table)
      /\ \A p \in 1..Len(table) :
           /\ table'[p].Entry_ID = table[p].Entry_ID
           /\ Names(req[r].body, table[p].Entry_ID) = {} => table'[p] = table[p]
           /\ table'[p] # table[p] =>
                \E k \in Names(req[r].body, table[p].Entry_ID) : table'[p] = req[r].body[k]

\* C7: a bulk update entry that matches no row is a silent no-op, answered
\* 200; one that matches overwrites exactly that row's nine non-id fields.
C7_UpdateById == []C7_State /\ [][C7_Step]_vars

\* a bulk update answered 200 whose first entry matched no row and whose
\* second overwrote row 1
C7_Witness ==
  \E r \in Reqs :
    /\ req[r].kind = "update" /\ resp[r].status = 200
    /\ req[r].body = <<WithId(Payload1, 3), WithId(Payload2, 1)>>
    /\ Ids(table0) = {1, 2}
    /\ \A q \in Others(r) : pc[q] = "idle"
    /\ RowOf(table, 1) = WithId(Payload2, 1)
    /\ RowOf(table, 2) = RowOf(table0, 2)
    /\ RowOf(table0, 1) # WithId(Payload2, 1)

(* ---------------- C8 ---------------- *)
DistinctIds ==
  \A p, q \in 1..Len(table) : p # q => table[p].Entry_ID # table[q].Entry_ID

AssignedIds(r) ==
  {data_entries[r][p].Entry_ID : p \in 1..Len(data_entries[r])} \ {0}

DisjointAssignments ==
  \A r, q \in Reqs : r # q => AssignedIds(r) \cap AssignedIds(q) = {}

RowsStay ==
  /\ Len(table') >= Len(table)
  /\ \A p \in 1..Len(table) : table'[p].Entry_ID = table[p].Entry_ID

\* C8: the ids of the stored rows are pairwise distinct, two requests are
\* never given the same id, and no step removes a row or changes a row's id.
C8_Ids == [](DistinctIds /\ DisjointAssignments) /\ [][RowsStay]_vars

\* two uploads that ran at the same time: the one given the larger id
\* committed first
C8_Witness ==
  \E r, q \in Reqs :
    /\ r # q /\ IsUpload(r) /\ IsUpload(q)
    /\ resp[r].status = 200 /\ resp[q].status = 200
    /\ table0 = <<>>
    /\ Len(table) = 2
    /\ table[1].Entry_ID > table[2].Entry_ID

(* ---------------- C9 ---------------- *)
Ascending(rows) ==
  \A p, q \in 1..Len(rows) : p < q => rows[p].Entry_ID <= rows[q].Entry_ID

SameRows(rows, tbl) ==
  /\ Len(rows) = Len(tbl)
  /\ \A p \in 1..Len(tbl) : \E q \in 1..Len(rows) : rows[q] = tbl[p]
  /\ \A q \in 1..Len(rows) : \E p \in 1..Len(tbl) : rows[q] = tbl[p]

Fetches(r) == pc[r] = "select" /\ pc'[r] = "close"

C9_State ==
  \A r \in Reqs :
    req[r].kind = "results" =>
      /\ resp[r].status = 200 => Ascending(data[r])
      /\ pc[r] = "close" => Ascending(data[r])
      /\ (Answered(r) /\ resp[r].status # 200) => resp[r].status = 500

C9_Step ==
  \A r \in Reqs :
    /\ Fetches(r) => (Ascending(data'[r]) /\ SameRows(data'[r], table))
    /\ (req[r].kind = "results" /\ pc[r] = "close") =>
         (resp'[r].status \in {0, 200} /\ data'[r] = data[r])

\* C9: a list-results call fetches exactly the rows committed at the time of
\* its query, in non-decreasing Entry_ID order whatever order they were
\* committed in, and answers 200 with them; an empty store gives an empty
\* sequence and 200.
C9_ListAll == []C9_State /\ [][C9_Step]_vars

\* a call answered 200 with two rows in id order from a table whose heap
\* order is the reverse
C9_Witness ==
  \E r \in Reqs :
    /\ req[r].kind = "results" /\ resp[r].status = 200
    /\ Len(data[r]) = 2
    /\ data[r][1].Entry_ID < data[r][2].Entry_ID
    /\ table = <<data[r][2], data[r][1]>>

(* ---------------- C10 ---------------- *)
\* C10: when a request has been answered, no connection it opened is still
\* open
C10_AsStated == \A r \in Reqs : Answered(r) => conn[r] # "open"

====
